---- MODULE Spec2Model ----
(***************************************************************************)
(* A model of the PLONK front end of tcoratger/plonk: the expression       *)
(* evaluator and the assembly compiler (compiler/assembly.py), the helpers *)
(* of compiler/utils.py, the Program constraint system with its selector   *)
(* and permutation polynomials (compiler/program.py) and the roots of      *)
(* unity of the scalar field (curve.py).                                   *)
(*                                                                         *)
(* Python strings are sequences of one-character strings, so that          *)
(* indexing, slicing, split, lstrip, isalnum, isnumeric and int() are      *)
(* computed and not assumed.  A dict is the sequence of its <<key, value>> *)
(* pairs in insertion order.  None is the one-element sequence <<"None">>, *)
(* which is no Python string (its element is not a character).             *)
(***************************************************************************)
EXTENDS Integers, Sequences, FiniteSets, TLC

(***************************************************************************)
(* Characters and strings                                                  *)
(***************************************************************************)

\* The characters of the model's alphabet, in code-point order.
AsciiOrder ==
    << "\n", " ", "$", "*", "+", "-",
       "0", "1", "2", "3", "4", "5", "6", "7", "8", "9",
       "<", "=", "Z", "_",
       "a", "b", "c", "d", "e", "f", "i", "l", "o", "p", "t", "u", "x" >>

Digits == {"0", "1", "2", "3", "4", "5", "6", "7", "8", "9"}

Letters == {"Z", "a", "b", "c", "d", "e", "f", "i", "l", "o", "p", "t", "u", "x"}

\* ord(c), up to an order-preserving renumbering.
Ord(c) == CHOOSE i \in 1..Len(AsciiOrder) : AsciiOrder[i] = c

DigitValue(c) == Ord(c) - Ord("0")

None == << "None" >>

\* s[i:] for a 0-based Python index i, as a sequence.
From(s, i) == SubSeq(s, i + 1, Len(s))

\* s[:i]
Upto(s, i) == SubSeq(s, 1, i)

\* x in s
Contains(s, x) == \E i \in 1..Len(s) : s[i] = x

\* s.index(x), 0-based; only used where x is in s.
IndexOf(s, x) == (CHOOSE i \in 1..Len(s) : s[i] = x /\ \A j \in 1..(i - 1) : s[j] # x) - 1

RECURSIVE Split(_, _)
\* str.split(sep) for a one-character separator: empty pieces are kept.
Split(s, sep) ==
    IF Contains(s, sep)
    THEN << Upto(s, IndexOf(s, sep)) >> \o Split(From(s, IndexOf(s, sep) + 1), sep)
    ELSE << s >>

RECURSIVE Join(_, _)
\* sep.join(parts)
Join(parts, sep) ==
    IF Len(parts) = 0 THEN << >>
    ELSE IF Len(parts) = 1 THEN parts[1]
    ELSE parts[1] \o << sep >> \o Join(Tail(parts), sep)

RECURSIVE RStrip(_, _)
\* str.rstrip(ch)
RStrip(s, ch) ==
    IF Len(s) > 0 /\ s[Len(s)] = ch THEN RStrip(Upto(s, Len(s) - 1), ch) ELSE s

RECURSIVE LStrip(_, _)
\* str.lstrip(ch)
LStrip(s, ch) ==
    IF Len(s) > 0 /\ s[1] = ch THEN LStrip(Tail(s), ch) ELSE s

\* str.isalnum(): non-empty and every character a letter or a digit.
IsAlnum(s) == Len(s) > 0 /\ \A i \in 1..Len(s) : s[i] \in Letters \cup Digits

\* str.isnumeric(): non-empty and every character a digit.
IsNumeric(s) == Len(s) > 0 /\ \A i \in 1..Len(s) : s[i] \in Digits

RECURSIVE ToInt(_)
\* int(s) for a string of digits.
ToInt(s) ==
    IF Len(s) = 0 THEN 0
    ELSE 10 * ToInt(Upto(s, Len(s) - 1)) + DigitValue(s[Len(s)])

RECURSIVE StrLess(_, _)
\* s < t, the lexicographic order of Python strings.
StrLess(s, t) ==
    IF Len(t) = 0 THEN FALSE
    ELSE IF Len(s) = 0 THEN TRUE
    ELSE IF s[1] # t[1] THEN Ord(s[1]) < Ord(t[1])
    ELSE StrLess(Tail(s), Tail(t))

RECURSIVE InsertSorted(_, _)
InsertSorted(sortedList, x) ==
    IF Len(sortedList) = 0 THEN << x >>
    ELSE IF StrLess(x, sortedList[1]) THEN << x >> \o sortedList
    ELSE << sortedList[1] >> \o InsertSorted(Tail(sortedList), x)

RECURSIVE Sorted(_)
\* sorted(list of strings)
Sorted(list) ==
    IF Len(list) = 0 THEN << >>
    ELSE InsertSorted(Sorted(Upto(list, Len(list) - 1)), list[Len(list)])

\* [x for x in list if x]: the non-empty strings of a list.
NonEmpty(list) == SelectSeq(list, LAMBDA x : Len(x) > 0)

(***************************************************************************)
(* Dicts: sequences of <<key, value>> pairs in insertion order             *)
(***************************************************************************)

DictHas(d, k) == \E i \in 1..Len(d) : d[i][1] = k

\* d.get(k, default)
DictGet(d, k, default) ==
    IF DictHas(d, k) THEN d[CHOOSE i \in 1..Len(d) : d[i][1] = k][2] ELSE default

\* d[k] = v: an existing key keeps its place, a new key is appended.
DictSet(d, k, v) ==
    IF DictHas(d, k)
    THEN [i \in 1..Len(d) |-> IF d[i][1] = k THEN << k, v >> ELSE d[i]]
    ELSE Append(d, << k, v >>)

RECURSIVE DictUpdate(_, _)
DictUpdate(d, items) ==
    IF Len(items) = 0 THEN d
    ELSE DictUpdate(DictSet(d, items[1][1], items[1][2]), Tail(items))

(***************************************************************************)
(* compiler/utils.py                                                       *)
(***************************************************************************)

STAR == << "*" >>
PLUS == << "+" >>
MINUS == << "-" >>

\* (key or ""): None and the empty string are both falsy.
OrEmpty(key) == IF key = None THEN << >> ELSE key

\* The product key of key1 * key2: the elements of both keys, sorted and
\* joined with "*".
get_product_key(key1, key2) ==
    LET key1_elements == NonEmpty(Split(OrEmpty(key1), "*"))
        key2_elements == NonEmpty(Split(OrEmpty(key2), "*"))
        combined_elements == Sorted(key1_elements \o key2_elements)
    IN  Join(combined_elements, "*")

\* Non-empty, alphanumeric, and not starting with a digit.
is_valid_variable_name(name) ==
    Len(name) > 0 /\ IsAlnum(name) /\ name[1] \notin Digits

(***************************************************************************)
(* compiler/assembly.py: evaluate                                          *)
(*                                                                         *)
(* A call returns [err, val]: err is "" and val the coefficient map, or    *)
(* err names the exception raised and val is empty.  IndexError is         *)
(* Python's own fault on exprs[0] of an empty list or exprs[0][0] of an    *)
(* empty token.                                                            *)
(***************************************************************************)

Ok(val) == [err |-> "", val |-> val]

Raise(err) == [err |-> err, val |-> << >>]

\* L | R: the union of two dicts, the right operand's value kept for a key
\* of both.
MergeCoeffs(L, R) == DictUpdate(L, R)

RECURSIVE ProductLoop(_, _, _, _, _)
\* The double loop of the "*" branch: for k1 in L, for k2 in R,
\* output[get_product_key(k1, k2)] = L[k1] * R[k2]; (i, j) is the next pair.
ProductLoop(L, R, i, j, output) ==
    IF i > Len(L) THEN output
    ELSE IF j > Len(R) THEN ProductLoop(L, R, i + 1, 1, output)
    ELSE ProductLoop(L, R, i, j + 1,
                     DictSet(output, get_product_key(L[i][1], R[j][1]),
                             L[i][2] * R[j][2]))

ProductCoeffs(L, R) == ProductLoop(L, R, 1, 1, << >>)

\* -1 if first_is_negative else 1
Sign(first_is_negative) == IF first_is_negative THEN -1 ELSE 1

\* MinusRightFlag with the flag inherited.
MinusRightFlag_Inherited(first_is_negative) == first_is_negative

\* The flag given to the right operand of a "-" split.
MinusRightFlag(first_is_negative) == TRUE

\* The flag given to the right operand of a "+" split.
PlusRightFlag(first_is_negative) == FALSE

\* StarRightFlag with the flag reset, as on the right of a "+".
StarRightFlag_Reset(first_is_negative) == FALSE

\* The flag given to the right operand of a "*" split.
StarRightFlag(first_is_negative) == first_is_negative

RECURSIVE evaluate(_, _)
evaluate(exprs, first_is_negative) ==
    IF Contains(exprs, PLUS) THEN
        LET L == evaluate(Upto(exprs, IndexOf(exprs, PLUS)), first_is_negative)
        IN  IF L.err # "" THEN L
            ELSE LET R == evaluate(From(exprs, IndexOf(exprs, PLUS) + 1),
                                   PlusRightFlag(first_is_negative))
                 IN  IF R.err # "" THEN R ELSE Ok(MergeCoeffs(L.val, R.val))
    ELSE IF Contains(exprs, MINUS) THEN
        LET L == evaluate(Upto(exprs, IndexOf(exprs, MINUS)), first_is_negative)
        IN  IF L.err # "" THEN L
            ELSE LET R == evaluate(From(exprs, IndexOf(exprs, MINUS) + 1),
                                   MinusRightFlag(first_is_negative))
                 IN  IF R.err # "" THEN R ELSE Ok(MergeCoeffs(L.val, R.val))
    ELSE IF Contains(exprs, STAR) THEN
        LET L == evaluate(Upto(exprs, IndexOf(exprs, STAR)), first_is_negative)
        IN  IF L.err # "" THEN L
            ELSE LET R == evaluate(From(exprs, IndexOf(exprs, STAR) + 1),
                                   StarRightFlag(first_is_negative))
                 IN  IF R.err # "" THEN R ELSE Ok(ProductCoeffs(L.val, R.val))
    ELSE IF Len(exprs) > 1 THEN Raise("NoOperatorsFound")
    ELSE IF Len(exprs) = 0 THEN Raise("IndexError")
    ELSE IF Len(exprs[1]) = 0 THEN Raise("IndexError")
    ELSE IF exprs[1][1] = "-" THEN evaluate(<< Tail(exprs[1]) >>, ~first_is_negative)
    ELSE IF IsNumeric(exprs[1])
        THEN Ok(<< << << >>, ToInt(exprs[1]) * Sign(first_is_negative) >> >>)
    ELSE IF is_valid_variable_name(exprs[1])
        THEN Ok(<< << exprs[1], Sign(first_is_negative) >> >>)
    ELSE Raise("UnknownToken")

(***************************************************************************)
(* curve.py: the scalar field                                              *)
(***************************************************************************)

\* Scalar.field_modulus.  The source takes the order of the bn128 curve, a
\* 254-bit prime p for which 5 generates the multiplicative group.  The
\* model takes the prime 73, for which 5 generates the multiplicative group
\* too, and for which, as for the bn128 order, 2, 3 and 3/2 are no n-th
\* roots of unity for the group orders n the model reaches.
field_modulus == 73

\* Scalar(x): the integer x reduced modulo the field modulus.
Scalar(x) == x % field_modulus

(***************************************************************************)
(* compiler/assembly.py: eq_to_assembly and AssemblyEqn                    *)
(*                                                                         *)
(* An AssemblyEqn is [wires |-> <<L, R, O>>, coeffs |-> dict]; a call of   *)
(* eq_to_assembly returns [err, wires, coeffs] with err = "" on success.   *)
(***************************************************************************)

ASSIGN == << "<", "=", "=" >>
EQUAL == << "=", "=", "=" >>
PUBLIC == << "p", "u", "b", "l", "i", "c" >>
OUTPUT_COEFF == << "$", "o", "u", "t", "p", "u", "t", "_", "c", "o", "e", "f", "f" >>
PUBLIC_FLAG == << "$", "p", "u", "b", "l", "i", "c" >>
EMPTY == << >>

\* True, stored in a dict of integers: in Python True == 1.
True == 1

Asm(wires, coeffs) == [err |-> "", wires |-> wires, coeffs |-> coeffs]

AsmRaise(err) == [err |-> err, wires |-> << >>, coeffs |-> << >>]

\* eq.rstrip("\n").split(" ")
Tokenize(eq) == Split(RStrip(eq, "\n"), " ")

RECURSIVE GatherVariables(_, _)
\* The loop over tokens[2:]: the valid names, leading "-" stripped, in order
\* of first appearance.
GatherVariables(toks, variables) ==
    IF Len(toks) = 0 THEN variables
    ELSE LET var == LStrip(toks[1], "-")
         IN  GatherVariables(Tail(toks),
                 IF is_valid_variable_name(var) /\ ~Contains(variables, var)
                 THEN Append(variables, var) ELSE variables)

\* The variables list after the branch on len(variables): one variable is
\* duplicated.
WireVariables(variables) ==
    IF Len(variables) = 1 THEN Append(variables, variables[1]) ELSE variables

\* AllowedCoeffs with the squares of two variables allowed beside their
\* product.
AllowedCoeffs_Squares(variables) ==
    variables \o << EMPTY, OUTPUT_COEFF >> \o
    [k \in 1..(Len(variables) * Len(variables)) |->
        get_product_key(variables[((k - 1) \div Len(variables)) + 1],
                        variables[((k - 1) % Len(variables)) + 1])]

\* allowed_coeffs: the variables, "", "$output_coeff" and, with one or two
\* variables, their product key.
AllowedCoeffs(variables) ==
    variables \o << EMPTY, OUTPUT_COEFF >> \o
    (IF Len(variables) \in {1, 2}
     THEN << get_product_key(WireVariables(variables)[1], WireVariables(variables)[2]) >>
     ELSE << >>)

\* DegreeTooHigh with the limit off by one.
DegreeTooHigh_OffByOne(variables) == Len(variables) > 3

\* len(variables) > 2
DegreeTooHigh(variables) == Len(variables) > 2

\* Some key of the coefficient map is not allowed.
HasInvalidCoeff(coeffs, allowed_coeffs) ==
    \E i \in 1..Len(coeffs) : ~Contains(allowed_coeffs, coeffs[i][1])

\* MakeWires with two variables in the reverse order.
MakeWires_Swapped(variables, out) ==
    IF Len(variables) = 2 THEN << variables[2], variables[1], out >>
    ELSE variables \o [i \in 1..(2 - Len(variables)) |-> None] \o << out >>

\* variables + [None] * (2 - len(variables)) + [out]
MakeWires(variables, out) ==
    variables \o [i \in 1..(2 - Len(variables)) |-> None] \o << out >>

\* The declared variable's validity check of the "<=="/"===" branch.
OutNameRejected(out) == ~is_valid_variable_name(out)

\* PublicEqn with the variable on the output wire.
PublicEqn_OutputWire(tokens) ==
    Asm(<< None, None, tokens[1] >>,
        DictSet(DictSet(DictSet(<< >>, tokens[1], -1), OUTPUT_COEFF, 0),
                PUBLIC_FLAG, True))

\* The "public" branch.
PublicEqn(tokens) ==
    Asm(<< tokens[1], None, None >>,
        DictSet(DictSet(DictSet(<< >>, tokens[1], -1), OUTPUT_COEFF, 0),
                PUBLIC_FLAG, True))

\* The "<=="/"===" branch, after the expression was evaluated to coeffs0.
CompileEqn(tokens, coeffs0) ==
    IF Len(tokens[1]) = 0 THEN AsmRaise("IndexError")
    ELSE
    LET negated == tokens[1][1] = "-"
        out == IF negated THEN Tail(tokens[1]) ELSE tokens[1]
        coeffs == IF negated THEN DictSet(coeffs0, OUTPUT_COEFF, -1) ELSE coeffs0
        variables == GatherVariables(From(tokens, 2), << >>)
    IN  IF OutNameRejected(out) THEN AsmRaise("InvalidOutName")
        ELSE IF DegreeTooHigh(variables) THEN AsmRaise("DegreeTooHigh")
        ELSE IF HasInvalidCoeff(coeffs, AllowedCoeffs(variables))
            THEN AsmRaise("InvalidCoeff")
        ELSE Asm(MakeWires(WireVariables(variables), out), coeffs)

eq_to_assembly(eq) ==
    LET tokens == Tokenize(eq)
    IN  IF Len(tokens) < 2 THEN AsmRaise("IndexError")
        ELSE IF tokens[2] \in {ASSIGN, EQUAL} THEN
            LET ev == evaluate(From(tokens, 2), FALSE)
            IN  IF ev.err # "" THEN AsmRaise(ev.err) ELSE CompileEqn(tokens, ev.val)
        ELSE IF tokens[2] = PUBLIC THEN PublicEqn(tokens)
        ELSE AsmRaise("UnsupportedOperation")

\* AssemblyEqn.L
GateL(asm) == Scalar(-DictGet(asm.coeffs, asm.wires[1], 0))

\* GateR without the test wires.R != wires.L.
GateR_DoubleCount(asm) == Scalar(-DictGet(asm.coeffs, asm.wires[2], 0))

\* AssemblyEqn.R
GateR(asm) ==
    IF asm.wires[2] # asm.wires[1]
    THEN Scalar(-DictGet(asm.coeffs, asm.wires[2], 0))
    ELSE Scalar(0)

\* AssemblyEqn.C
GateC(asm) == Scalar(-DictGet(asm.coeffs, EMPTY, 0))

\* AssemblyEqn.O
GateO(asm) == Scalar(DictGet(asm.coeffs, OUTPUT_COEFF, 1))

\* GateM with the product's coefficient not negated.
GateM_NotNegated(asm) ==
    IF ~Contains(asm.wires, None)
    THEN Scalar(DictGet(asm.coeffs, get_product_key(asm.wires[1], asm.wires[2]), 0))
    ELSE Scalar(0)

\* AssemblyEqn.M
GateM(asm) ==
    IF ~Contains(asm.wires, None)
    THEN Scalar(-DictGet(asm.coeffs, get_product_key(asm.wires[1], asm.wires[2]), 0))
    ELSE Scalar(0)

\* AssemblyEqn.gate
MakeGate(asm) ==
    [L |-> GateL(asm), R |-> GateR(asm), M |-> GateM(asm),
     O |-> GateO(asm), C |-> GateC(asm)]

(***************************************************************************)
(* curve.py: roots of unity                                                *)
(***************************************************************************)

RECURSIVE Pow(_, _)
\* Scalar(base) ** e, by repeated squaring.
Pow(base, e) ==
    IF e = 0 THEN Scalar(1)
    ELSE IF e % 2 = 0 THEN Pow(Scalar(base * base), e \div 2)
    ELSE Scalar(Pow(Scalar(base * base), e \div 2) * base)

\* The generator the source raises to (p - 1) // group_order.
Generator == 5

\* Scalar.root_of_unity(group_order), for group_order # 0.
root_of_unity(group_order) == Pow(Generator, (field_modulus - 1) \div group_order)

RECURSIVE RootsLoop(_, _)
\* while len(o) < group_order: o.append(o[-1] * o[1])
RootsLoop(o, group_order) ==
    IF Len(o) < group_order
    THEN RootsLoop(Append(o, Scalar(o[Len(o)] * o[2])), group_order)
    ELSE o

\* Scalar.roots_of_unity(group_order), for group_order # 0: the list starts
\* as [1, w].
roots_of_unity(group_order) ==
    RootsLoop(<< Scalar(1), root_of_unity(group_order) >>, group_order)

(***************************************************************************)
(* poly.py and compiler/utils.py: polynomials, columns and cells           *)
(***************************************************************************)

\* Polynomial(values, Basis.LAGRANGE)
Lagrange(values) == [values |-> values, basis |-> "LAGRANGE"]

\* Column.LEFT, Column.RIGHT, Column.OUTPUT: the values of the enum.
LEFT == 1
RIGHT == 2
OUTPUT == 3

\* Column.variants()
Columns == << LEFT, RIGHT, OUTPUT >>

\* A Cell is <<row, column>>, its sort key, with rows counted from 0.
\* Cell.__lt__: the order of the keys (row, column.value).
CellLess(x, y) == x[1] < y[1] \/ (x[1] = y[1] /\ x[2] < y[2])

RECURSIVE SortedCells(_)
\* sorted(uses) for a set of cells.
SortedCells(uses) ==
    IF uses = { } THEN << >>
    ELSE LET first == CHOOSE x \in uses : \A y \in uses \ {x} : CellLess(x, y)
         IN  << first >> \o SortedCells(uses \ {first})

\* Cell.label(group_order): the row's root of unity times the column value.
label(cell, group_order) ==
    Scalar(roots_of_unity(group_order)[cell[1] + 1] * cell[2])

(***************************************************************************)
(* compiler/program.py                                                     *)
(*                                                                         *)
(* A Program is [constraints, group_order]; the constructor returns        *)
(* [err, constraints, group_order] with err = "" on success.               *)
(***************************************************************************)

\* GroupOrderTooSmall with >= for >.
GroupOrderTooSmall_Strict(constraints, n) == Len(constraints) >= n

\* len(constraints) > group_order
GroupOrderTooSmall(constraints, n) == Len(constraints) > n

RECURSIVE CompileAll(_, _)
\* [eq_to_assembly(constraint) for constraint in constraints]: the list, or
\* the error of the first equation that fails.
CompileAll(constraints, assembly) ==
    IF Len(constraints) = 0 THEN [err |-> "", assembly |-> assembly]
    ELSE LET r == eq_to_assembly(constraints[1])
         IN  IF r.err # "" THEN [err |-> r.err, assembly |-> << >>]
             ELSE CompileAll(Tail(constraints),
                             Append(assembly, [wires |-> r.wires, coeffs |-> r.coeffs]))

\* NewProgram with the equations compiled before the capacity check.
NewProgram_CompileFirst(constraints, n) ==
    LET r == CompileAll(constraints, << >>)
    IN  IF r.err # ""
        THEN [err |-> r.err, constraints |-> << >>, group_order |-> 0]
        ELSE IF GroupOrderTooSmall(constraints, n)
            THEN [err |-> "GroupOrderTooSmall", constraints |-> << >>, group_order |-> 0]
        ELSE [err |-> "", constraints |-> r.assembly, group_order |-> n]

\* Program.__init__
NewProgram(constraints, n) ==
    IF GroupOrderTooSmall(constraints, n)
    THEN [err |-> "GroupOrderTooSmall", constraints |-> << >>, group_order |-> 0]
    ELSE LET r == CompileAll(constraints, << >>)
         IN  IF r.err # ""
             THEN [err |-> r.err, constraints |-> << >>, group_order |-> 0]
             ELSE [err |-> "", constraints |-> r.assembly, group_order |-> n]

\* SelectorValues with the rows filled one short of the constraints.
SelectorValues_OneShort(prog, sel) ==
    [i \in 1..prog.group_order |->
        IF i < Len(prog.constraints) THEN MakeGate(prog.constraints[i])[sel]
        ELSE Scalar(0)]

\* The selector values of one column of make_gate_polynomials: a list of
\* group_order zeros, with the gate's value at each constraint's row.
SelectorValues(prog, sel) ==
    [i \in 1..prog.group_order |->
        IF i <= Len(prog.constraints) THEN MakeGate(prog.constraints[i])[sel]
        ELSE Scalar(0)]

\* Program.make_gate_polynomials: the tuple (L, R, M, O, C).
make_gate_polynomials(prog) ==
    << Lagrange(SelectorValues(prog, "L")), Lagrange(SelectorValues(prog, "R")),
       Lagrange(SelectorValues(prog, "M")), Lagrange(SelectorValues(prog, "O")),
       Lagrange(SelectorValues(prog, "C")) >>

\* The wire cells of the constraints, in the order the first loop of
\* make_s_polynomials visits them.
WireCells(prog) ==
    [k \in 1..(3 * Len(prog.constraints)) |->
        << (k - 1) \div 3, Columns[((k - 1) % 3) + 1] >>]

\* The variable on a wire cell.
WireAt(prog, cell) == prog.constraints[cell[1] + 1].wires[cell[2]]

RECURSIVE UsesKeys(_, _, _)
\* The keys of variable_uses in insertion order: None, then each wire value
\* at its first use.
UsesKeys(prog, cells, keys) ==
    IF Len(cells) = 0 THEN keys
    ELSE UsesKeys(prog, Tail(cells),
                  IF Contains(keys, WireAt(prog, cells[1])) THEN keys
                  ELSE Append(keys, WireAt(prog, cells[1])))

\* The rows beyond the constraints, whose cells are all unused.
UnusedRows(prog) == Len(prog.constraints)..(prog.group_order - 1)

\* variable_uses[value]: the cells of the wires holding value and, for None,
\* every cell of the rows beyond the constraints.
Uses(prog, value) ==
    { c \in { WireCells(prog)[k] : k \in 1..(3 * Len(prog.constraints)) } :
        WireAt(prog, c) = value }
    \cup (IF value = None
          THEN { << row, col >> : row \in UnusedRows(prog), col \in {LEFT, RIGHT, OUTPUT} }
          ELSE { })

\* NextIndex without the rotation: each cell receives its own label.
NextIndex_NoRotation(i, size) == i

\* The index of the cell that receives the label of sorted_uses[i] (1-based):
\* next_i = (i + 1) % len(sorted_uses), 0-based.
NextIndex(i, size) == (i % size) + 1

RECURSIVE RotateLoop(_, _, _, _)
\* for i, cell in enumerate(sorted_uses):
\*     S_values[next_column][next_row] = cell.label(group_order)
RotateLoop(S, sorted_uses, i, n) ==
    IF i > Len(sorted_uses) THEN S
    ELSE LET next == sorted_uses[NextIndex(i, Len(sorted_uses))]
         IN  RotateLoop([S EXCEPT ![next[2]][next[1] + 1] = label(sorted_uses[i], n)],
                        sorted_uses, i + 1, n)

RECURSIVE GroupsLoop(_, _, _)
\* for _, uses in variable_uses.items(): ...
GroupsLoop(S, prog, keys) ==
    IF Len(keys) = 0 THEN S
    ELSE GroupsLoop(RotateLoop(S, SortedCells(Uses(prog, keys[1])), 1, prog.group_order),
                    prog, Tail(keys))

\* S_values, a list of group_order values per column.
SValues(prog) ==
    GroupsLoop([col \in {LEFT, RIGHT, OUTPUT} |-> [i \in 1..prog.group_order |-> Scalar(0)]],
               prog, UsesKeys(prog, WireCells(prog), << None >>))

\* Program.make_s_polynomials: the dict of the three columns' polynomials.
make_s_polynomials(prog) ==
    [col \in {LEFT, RIGHT, OUTPUT} |-> Lagrange(SValues(prog)[col])]

\* common_preprocessed_input with the gate polynomials passed in the order
\* make_gate_polynomials returns them, L, R, M, O, C.
common_preprocessed_input_InOrder(prog) ==
    LET g == make_gate_polynomials(prog)
        S == make_s_polynomials(prog)
    IN  [group_order |-> prog.group_order,
         QM |-> g[1], QL |-> g[2], QR |-> g[3], QO |-> g[4], QC |-> g[5],
         S1 |-> S[LEFT], S2 |-> S[RIGHT], S3 |-> S[OUTPUT]]

\* Program.common_preprocessed_input
common_preprocessed_input(prog) ==
    LET g == make_gate_polynomials(prog)
        S == make_s_polynomials(prog)
    IN  [group_order |-> prog.group_order,
         QM |-> g[3], QL |-> g[1], QR |-> g[2], QO |-> g[4], QC |-> g[5],
         S1 |-> S[LEFT], S2 |-> S[RIGHT], S3 |-> S[OUTPUT]]


(***************************************************************************)
(* Inputs of the compiler: equation strings                                *)
(***************************************************************************)

\* The largest number of operands of a generated expression.
MaxTerms == 3

Units == { << "a" >>, << "b" >>, << "c" >>, << "2" >> }

Operators == { PLUS, MINUS, STAR }

RECURSIVE Chains(_)
\* The expressions of n operands joined by n - 1 operators.
Chains(n) ==
    IF n <= 1 THEN { << u >> : u \in Units }
    ELSE { e \o << o, u >> : e \in Chains(n - 1), o \in Operators, u \in Units }

GeneratedExprs == UNION { Chains(n) : n \in 1..MaxTerms }

\* Expressions of the source's docstrings and comments, and malformed ones.
CuratedExprs ==
    { << << "a" >>, STAR, << "c" >>, MINUS, << "4", "5" >>, STAR, << "a" >>,
         PLUS, << "9", "8", "7" >> >>,
      << << "a" >>, PLUS, << "b" >>, STAR, << "c" >>, STAR, << "d" >> >>,
      << << "a" >>, STAR, << "a" >>, PLUS, << "a" >> >>,
      << << "a" >>, STAR, << "b" >> >>,
      << << "2" >>, STAR, << "a" >>, PLUS, << "b" >> >>,
      << << "a" >>, MINUS, << "2" >>, STAR, << "b" >> >>,
      << << "9" >> >>,
      << << "7" >> >>,
      << << "b" >>, STAR, STAR, << "c" >> >>,
      << << "a" >>, << "b" >> >>,
      << << "a" >>, PLUS >>,
      << MINUS, << "a" >> >>,
      << EMPTY >>,
      << >>,
      << << "-", "a" >>, STAR, << "b" >> >>,
      << << "-", "-", "a" >> >>,
      << << "a" >>, MINUS, << "-", "2" >>, STAR, << "b" >> >>,
      << << "a" >>, PLUS, << "$" >> >>,
      << << "7", "x" >> >>,
      << << "a" >>, PLUS, << "b" >>, PLUS, << "c" >>, PLUS, << "$" >> >>,
      << << "a" >>, PLUS, << "b" >>, << "c" >> >>,
      << << "a" >>, STAR, << "b" >>, STAR, << "2" >>, STAR, << "c" >>, STAR,
         << "2" >> >> }

OutTokens ==
    { << "c" >>, << "-", "c" >>, << "7" >>, << "a" >>, EMPTY, << "-", "7" >>,
      << "x", "2" >> }

Keywords == { ASSIGN, EQUAL, PUBLIC, PLUS }

\* The equation string of the tokens out, keyword and exprs.
Equation(out, keyword, exprs) == Join(<< out, keyword >> \o exprs, " ")

\* "d <== a * c - 45 * a + 987", the third example of eq_to_assembly's
\* docstring.
DocEquation ==
    Equation(<< "d" >>, ASSIGN,
             << << "a" >>, STAR, << "c" >>, MINUS, << "4", "5" >>, STAR, << "a" >>,
                PLUS, << "9", "8", "7" >> >>)

EquationPool ==
    { Equation(<< "c" >>, ASSIGN, e) : e \in GeneratedExprs }
    \cup { Equation(out, k, e) : out \in OutTokens, k \in Keywords,
                                 e \in CuratedExprs }
    \cup { << "c" >>, EMPTY,
           Equation(<< "c" >>, EQUAL, << << "a" >>, STAR, << "b" >> >>) \o << "\n" >>,
           DocEquation }

(***************************************************************************)
(* Inputs of Program: lists of equations and group orders                  *)
(***************************************************************************)

\* The largest number of equations given to Program.
MaxEquations == 2

\* The largest group order given to Program and to roots_of_unity.
MaxGroupOrder == 4

\* Equations that compile, over shared variables, and two that do not: an
\* invalid output name and three variables.
ProgramPool ==
    { Equation(<< "c" >>, ASSIGN, << << "a" >>, STAR, << "b" >> >>),
      Equation(<< "a" >>, EQUAL, << << "9" >> >>),
      Equation(<< "b" >>, PUBLIC, << >>),
      Equation(<< "d" >>, ASSIGN, << << "c" >>, PLUS, << "a" >> >>),
      Equation(<< "a" >>, ASSIGN, << << "a" >>, STAR, << "a" >> >>),
      Equation(<< "7" >>, EQUAL, << << "7" >> >>),
      Equation(<< "e" >>, ASSIGN, << << "a" >>, PLUS, << "b" >>, STAR, << "c" >> >>) }

RECURSIVE ListsOf(_, _)
\* The lists of exactly n elements of pool.
ListsOf(pool, n) ==
    IF n = 0 THEN { << >> }
    ELSE { Append(l, e) : l \in ListsOf(pool, n - 1), e \in pool }

EquationLists == UNION { ListsOf(ProgramPool, n) : n \in 0..MaxEquations }

(***************************************************************************)
(* State                                                                   *)
(***************************************************************************)

VARIABLES
    eq,           \* the equation string given to the compiler
    ev,           \* the last call of evaluate on eq's expression: flag and result
    asm,          \* the result of eq_to_assembly(eq)
    gate,         \* the gate extracted from asm
    equations,    \* the list of equation strings given to Program
    group_order,  \* the group order given to Program and to roots_of_unity
    program,      \* the result of Program(equations, group_order)
    polys,        \* the result of program.make_gate_polynomials()
    perm,         \* the result of program.make_s_polynomials()
    cpi,          \* the result of program.common_preprocessed_input()
    roots         \* the result of Scalar.roots_of_unity(group_order)

compilerVars == << eq, ev, asm, gate >>

programVars == << equations, group_order, program, polys, perm, cpi, roots >>

vars == << eq, ev, asm, gate, equations, group_order, program, polys, perm, cpi, roots >>

NoEval == [called |-> FALSE, flag |-> FALSE, exprs |-> << >>, err |-> "", val |-> << >>]

NoAsm == [called |-> FALSE, err |-> "", wires |-> << >>, coeffs |-> << >>]

NoGate == [called |-> FALSE, L |-> 0, R |-> 0, M |-> 0, O |-> 0, C |-> 0]

NoProgram == [called |-> FALSE, err |-> "", constraints |-> << >>, group_order |-> 0]

NoResult == [called |-> FALSE, err |-> "", val |-> << >>]

Result(val) == [called |-> TRUE, err |-> "", val |-> val]

Raised(err) == [called |-> TRUE, err |-> err, val |-> << >>]

\* No program was asked for.
IdleProgram ==
    /\ equations = << >>
    /\ group_order = 0
    /\ program = NoProgram
    /\ polys = NoResult
    /\ perm = NoResult
    /\ cpi = NoResult
    /\ roots = NoResult

\* No equation was given to the compiler.
IdleCompiler ==
    /\ eq = << >>
    /\ ev = NoEval
    /\ asm = NoAsm
    /\ gate = NoGate

(***************************************************************************)
(* The compiler's operations                                               *)
(***************************************************************************)

InitCompile ==
    /\ eq \in EquationPool
    /\ ev = NoEval
    /\ asm = NoAsm
    /\ gate = NoGate
    /\ IdleProgram

\* evaluate(tokens[2:], first_is_negative) on the expression of eq.
Evaluate(first_is_negative) ==
    /\ ~ev.called
    /\ LET exprs == From(Tokenize(eq), 2)
           r == evaluate(exprs, first_is_negative)
       IN  ev' = [called |-> TRUE, flag |-> first_is_negative, exprs |-> exprs,
                  err |-> r.err, val |-> r.val]
    /\ UNCHANGED << eq, asm, gate >>
    /\ UNCHANGED programVars

\* eq_to_assembly(eq)
EqToAssembly ==
    /\ ~asm.called
    /\ LET r == eq_to_assembly(eq)
       IN  asm' = [called |-> TRUE, err |-> r.err, wires |-> r.wires,
                   coeffs |-> r.coeffs]
    /\ UNCHANGED << eq, ev, gate >>
    /\ UNCHANGED programVars

\* AssemblyEqn.gate() on the compiled equation.
ExtractGate ==
    /\ asm.called /\ asm.err = ""
    /\ ~gate.called
    /\ LET g == MakeGate(asm)
       IN  gate' = [called |-> TRUE, L |-> g.L, R |-> g.R, M |-> g.M,
                    O |-> g.O, C |-> g.C]
    /\ UNCHANGED << eq, ev, asm >>
    /\ UNCHANGED programVars

NextCompile ==
    \/ \E f \in BOOLEAN : Evaluate(f)
    \/ EqToAssembly
    \/ ExtractGate

SpecCompile == InitCompile /\ [][NextCompile]_vars

(***************************************************************************)
(* The operations of Program and of the scalar field                       *)
(***************************************************************************)

Init ==
    /\ equations \in EquationLists
    /\ group_order \in 0..MaxGroupOrder
    /\ program = NoProgram
    /\ polys = NoResult
    /\ perm = NoResult
    /\ cpi = NoResult
    /\ roots = NoResult
    /\ IdleCompiler

\* program = Program(equations, group_order)
Construct ==
    /\ ~program.called
    /\ LET r == NewProgram(equations, group_order)
       IN  program' = [called |-> TRUE, err |-> r.err, constraints |-> r.constraints,
                       group_order |-> r.group_order]
    /\ UNCHANGED << equations, group_order, polys, perm, cpi, roots >>
    /\ UNCHANGED compilerVars

\* The Program object, once constructed.
Self == [constraints |-> program.constraints, group_order |-> program.group_order]

Constructed == program.called /\ program.err = ""

\* program.make_gate_polynomials()
MakeGatePolynomials ==
    /\ Constructed /\ ~polys.called
    /\ polys' = Result(make_gate_polynomials(Self))
    /\ UNCHANGED << equations, group_order, program, perm, cpi, roots >>
    /\ UNCHANGED compilerVars

\* program.make_s_polynomials()
MakeSPolynomials ==
    /\ Constructed /\ ~perm.called
    /\ perm' = Result(make_s_polynomials(Self))
    /\ UNCHANGED << equations, group_order, program, polys, cpi, roots >>
    /\ UNCHANGED compilerVars

\* program.common_preprocessed_input()
CommonPreprocessedInput ==
    /\ Constructed /\ ~cpi.called
    /\ cpi' = Result(common_preprocessed_input(Self))
    /\ UNCHANGED << equations, group_order, program, polys, perm, roots >>
    /\ UNCHANGED compilerVars

\* Scalar.roots_of_unity(group_order); a group order of 0 divides by zero.
RootsOfUnity ==
    /\ ~roots.called
    /\ roots' = IF group_order = 0 THEN Raised("ZeroDivisionError")
                ELSE Result(roots_of_unity(group_order))
    /\ UNCHANGED << equations, group_order, program, polys, perm, cpi >>
    /\ UNCHANGED compilerVars

Next ==
    \/ Construct
    \/ MakeGatePolynomials
    \/ MakeSPolynomials
    \/ CommonPreprocessedInput
    \/ RootsOfUnity

Spec == Init /\ [][Next]_vars

(***************************************************************************)
(* What the claims speak of: the equation's parts and the meaning of an    *)
(* expression, stated without the compiler                                 *)
(***************************************************************************)

\* The largest value a variable takes in the assignments tried.
MaxValue == 3

EqTokens == Tokenize(eq)

EqKeyword == IF Len(EqTokens) >= 2 THEN EqTokens[2] ELSE None

\* eq is of the form <out> <== <expr> or <out> === <expr>.
IsEquationForm == EqKeyword \in {ASSIGN, EQUAL}

IsPublicForm == EqKeyword = PUBLIC

EqExprs == From(EqTokens, 2)

\* The declared variable: the first token, without the "-" an equation allows
\* in front of its output.
DeclaredName ==
    IF IsEquationForm /\ Len(EqTokens[1]) > 0 /\ EqTokens[1][1] = "-"
    THEN Tail(EqTokens[1]) ELSE EqTokens[1]

IsName(s) ==
    /\ Len(s) > 0
    /\ \A i \in 1..Len(s) : s[i] \in Letters \cup Digits
    /\ s[1] \in Letters

\* A token without its leading "-" signs.
Unsigned(tok) == LStrip(tok, "-")

\* An operand: a name or an integer literal, possibly signed.
IsOperand(tok) ==
    /\ tok \notin Operators
    /\ IsName(Unsigned(tok)) \/ IsNumeric(Unsigned(tok))

\* Operands separated by single operators.
WellFormed(exprs) ==
    /\ Len(exprs) % 2 = 1
    /\ \A i \in 1..Len(exprs) :
          IF i % 2 = 1 THEN IsOperand(exprs[i]) ELSE exprs[i] \in Operators

\* The distinct variable names an expression references.
ReferencedVars(exprs) ==
    { Unsigned(exprs[i]) : i \in { j \in 1..Len(exprs) : IsName(Unsigned(exprs[j])) } }

\* The key of the product of two names.
PairKey(x, y) == IF StrLess(y, x) THEN y \o STAR \o x ELSE x \o STAR \o y

\* The one product key an equation over the names vs may hold.
ProductKeys(vs) ==
    IF Cardinality(vs) = 1 THEN { PairKey(x, x) : x \in vs }
    ELSE IF Cardinality(vs) = 2
        THEN { PairKey(p[1], p[2]) : p \in { q \in vs \X vs : q[1] # q[2] } }
    ELSE { }

RECURSIVE OperandValue(_, _)
\* The value of an operand under the assignment sigma of values to names.
OperandValue(tok, sigma) ==
    IF tok[1] = "-" THEN 0 - OperandValue(Tail(tok), sigma)
    ELSE IF IsNumeric(tok) THEN ToInt(tok)
    ELSE sigma[tok]

RECURSIVE TermValue(_, _)
\* The value of a product of operands.
TermValue(exprs, sigma) ==
    IF Len(exprs) = 1 THEN OperandValue(exprs[1], sigma)
    ELSE OperandValue(exprs[1], sigma) * TermValue(From(exprs, 2), sigma)

\* The position of the last "+" or "-" of exprs, 0 if there is none.
LastAdditive(exprs) ==
    IF \E i \in 1..Len(exprs) : exprs[i] \in {PLUS, MINUS}
    THEN CHOOSE i \in 1..Len(exprs) :
            /\ exprs[i] \in {PLUS, MINUS}
            /\ \A j \in (i + 1)..Len(exprs) : exprs[j] \notin {PLUS, MINUS}
    ELSE 0

RECURSIVE ExprValue(_, _)
\* The value of a well-formed expression: "*" binds tighter than "+" and
\* "-", which associate to the left.
ExprValue(exprs, sigma) ==
    LET i == LastAdditive(exprs)
    IN  IF i = 0 THEN TermValue(exprs, sigma)
        ELSE IF exprs[i] = PLUS
            THEN ExprValue(Upto(exprs, i - 1), sigma) + TermValue(From(exprs, i), sigma)
        ELSE ExprValue(Upto(exprs, i - 1), sigma) - TermValue(From(exprs, i), sigma)

\* The names on the wires of the compiled equation.
WireNames == { asm.wires[i] : i \in 1..Len(asm.wires) } \ { None }

\* The value on a wire: 0 for an absent wire.
WireValue(w, sigma) == IF w = None THEN 0 ELSE sigma[w]

\* The coefficient map as a function of its keys.
AsMap(d) == [k \in { d[i][1] : i \in 1..Len(d) } |-> DictGet(d, k, 0)]

(***************************************************************************)
(* Claims on the compiler                                                  *)
(***************************************************************************)

\* C1: for every compiled equation out <== expr or out === expr (out
\* possibly written -out) and every assignment of field values to its
\* variables under which the output side equals the value of expr, the
\* extracted gate satisfies L*a + R*b + M*a*b + C + O*out = 0 (mod p).
C1_RowEquationHolds ==
    (gate.called /\ IsEquationForm) =>
        \A sigma \in [WireNames -> 0..MaxValue] :
            (OperandValue(EqTokens[1], sigma) - ExprValue(EqExprs, sigma))
                % field_modulus = 0
            => LET a == WireValue(asm.wires[1], sigma)
                   b == WireValue(asm.wires[2], sigma)
                   out == WireValue(asm.wires[3], sigma)
               IN  (gate.L * a + gate.R * b + gate.M * a * b + gate.C + gate.O * out)
                       % field_modulus = 0

\* C2: subtraction negates the whole term to its right: for tokens
\* X - c * v (v not in X) the coefficient of v is -c; and compiling
\* "d <== a * c - 45 * a + 987" does not raise and yields
\* {"a*c": 1, "a": -45, "": 987}.
C2_SubtractionNegatesProduct ==
    /\ (ev.called /\ ev.err = "" /\ ~ev.flag /\ Len(ev.exprs) >= 5) =>
          LET n == Len(ev.exprs)
              c == ev.exprs[n - 2]
              v == ev.exprs[n]
          IN  ( /\ ev.exprs[n - 3] = MINUS /\ ev.exprs[n - 1] = STAR
                /\ IsNumeric(c) /\ IsName(v)
                /\ \A i \in 1..(n - 4) : ev.exprs[i] # v )
              => DictGet(ev.val, v, 0) = 0 - ToInt(c)
    /\ (asm.called /\ eq = DocEquation) =>
          /\ asm.err = ""
          /\ AsMap(asm.coeffs) =
                AsMap(<< << << "a", "*", "c" >>, 1 >>, << << "a" >>, 0 - 45 >>,
                         << EMPTY, 987 >> >>)

\* The monomial key and the coefficient of a single operand.
OperandKey(tok) == IF IsNumeric(Unsigned(tok)) THEN EMPTY ELSE Unsigned(tok)

OperandCoeff(tok) == OperandValue(tok, [x \in { Unsigned(tok) } |-> 1])

\* C3: when both sides of a "+" or "-" split produce the same monomial key,
\* the merged map holds the sum of the two coefficients: "a + a" yields
\* {a: 2} and "a - a" yields 0 for a.
C3_MergeSumsCoefficients ==
    (ev.called /\ ev.err = "" /\ ~ev.flag /\ Len(ev.exprs) = 3) =>
        LET l == ev.exprs[1]
            o == ev.exprs[2]
            r == ev.exprs[3]
        IN  (o \in {PLUS, MINUS} /\ OperandKey(l) = OperandKey(r))
            => DictGet(ev.val, OperandKey(l), 0) =
                  OperandCoeff(l) + (IF o = PLUS THEN 1 ELSE 0 - 1) * OperandCoeff(r)

\* C4, as claimed: every "<=="/"===" equation whose right-hand side
\* references more than 2 distinct names fails with the degree error.
C4_DegreeErrorAlways ==
    (asm.called /\ IsEquationForm /\ Cardinality(ReferencedVars(EqExprs)) > 2)
        => asm.err = "DegreeTooHigh"

\* C4, amended: every "<=="/"===" equation with a well-formed expression and
\* a valid output name whose right-hand side references more than 2 distinct
\* names fails with the degree error, also when its coefficient map holds a
\* key outside the whitelist.
C4_DegreeErrorFirst ==
    ( /\ asm.called /\ IsEquationForm
      /\ WellFormed(EqExprs) /\ IsName(DeclaredName)
      /\ Cardinality(ReferencedVars(EqExprs)) > 2 )
        => asm.err = "DegreeTooHigh"

\* A degree error reported for an expression whose coefficient map holds a
\* product of three names, a key outside every whitelist.
C4_Witness ==
    /\ asm.called /\ asm.err = "DegreeTooHigh"
    /\ IsEquationForm /\ WellFormed(EqExprs) /\ IsName(DeclaredName)
    /\ ev.called /\ ~ev.flag /\ ev.err = ""
    /\ \E i \in 1..Len(ev.val) : Len(Split(ev.val[i][1], "*")) = 3

\* C9: eq_to_assembly rejects every equation whose declared variable is not
\* a valid name, in the forms "<==", "===" and "public"; "7 === 7" and
\* "7 public" fail with a name error.
C9_InvalidNameRejected ==
    /\ (asm.called /\ (IsEquationForm \/ IsPublicForm) /\ ~IsName(DeclaredName))
          => asm.err # ""
    /\ ( /\ asm.called
         /\ eq \in { Equation(<< "7" >>, EQUAL, << << "7" >> >>),
                     Equation(<< "7" >>, PUBLIC, << >>) } )
          => asm.err = "InvalidOutName"

\* The keys an equation's coefficient map may hold.
AllowedKeys ==
    ReferencedVars(EqExprs) \cup { EMPTY, OUTPUT_COEFF }
        \cup ProductKeys(ReferencedVars(EqExprs))

KeysOf(d) == { d[i][1] : i \in 1..Len(d) }

\* C10, as claimed: every key of the coefficient map of every AssemblyEqn
\* returned, in any accepted form, is a variable of the equation, "",
\* "$output_coeff" or the equation's one allowed product key.
C10_KeysWhitelistedAnyForm ==
    (asm.called /\ asm.err = "") =>
        KeysOf(asm.coeffs) \subseteq
            (AllowedKeys \cup (IF IsPublicForm THEN { EqTokens[1] } ELSE { }))

\* C10, amended: the keys of a compiled "<=="/"===" equation are variables
\* of the equation, "", "$output_coeff" or its one allowed product key, and
\* such an equation whose expression produces any other key fails to
\* compile; the keys of a "public" declaration are the declared token,
\* "$output_coeff" and the flag "$public".
C10_KeysWhitelisted ==
    /\ (asm.called /\ asm.err = "" /\ IsEquationForm)
          => KeysOf(asm.coeffs) \subseteq AllowedKeys
    /\ ( /\ asm.called /\ IsEquationForm
         /\ ev.called /\ ~ev.flag /\ ev.err = ""
         /\ ~(KeysOf(ev.val) \subseteq AllowedKeys) )
          => asm.err # ""
    /\ (asm.called /\ asm.err = "" /\ IsPublicForm)
          => KeysOf(asm.coeffs) = { EqTokens[1], OUTPUT_COEFF, PUBLIC_FLAG }

\* A compiled equation whose map holds a product key, a variable, the
\* constant key and "$output_coeff".
C10_Witness ==
    /\ asm.called /\ asm.err = "" /\ IsEquationForm
    /\ OUTPUT_COEFF \in KeysOf(asm.coeffs)
    /\ EMPTY \in KeysOf(asm.coeffs)
    /\ \E k \in KeysOf(asm.coeffs) : Contains(k, "*")
    /\ \E k \in KeysOf(asm.coeffs) : IsName(k)

(***************************************************************************)
(* Claims on Program and on the roots of unity                             *)
(***************************************************************************)

\* Every equation of the list given to Program compiles on its own.
EachCompiles == \A i \in 1..Len(equations) : eq_to_assembly(equations[i]).err = ""

\* C5: for equations that each compile, Program(equations, group_order)
\* fails if and only if len(equations) > group_order, and every constructed
\* Program has len(constraints) <= group_order.
C5_CapacityCheck ==
    /\ (program.called /\ EachCompiles) =>
          /\ (program.err # "") <=> (Len(equations) > group_order)
          /\ program.err \in {"", "GroupOrderTooSmall"}
    /\ Constructed =>
          /\ Len(program.constraints) <= program.group_order
          /\ Len(program.constraints) = Len(equations)
          /\ program.group_order = group_order

\* A Program constructed from as many equations as the group order has rows.
C5_Witness ==
    /\ Constructed
    /\ Len(equations) = group_order
    /\ Len(program.constraints) = MaxEquations

\* The cells of the grid of the constructed Program.
Grid == { << row, col >> : row \in 0..(program.group_order - 1), col \in {LEFT, RIGHT, OUTPUT} }

\* The occupant of a cell: the variable on the wire, or None for an absent
\* wire and for every cell of a row beyond the constraints.
Occupant(cell) ==
    IF cell[1] < Len(program.constraints)
    THEN program.constraints[cell[1] + 1].wires[cell[2]]
    ELSE None

\* The cells sharing the occupant of cell.
GroupOf(cell) == { y \in Grid : Occupant(y) = Occupant(cell) }

\* The value S[column][row] stored at cell.
Stored(cell) == perm.val[cell[2]].values[cell[1] + 1]

\* The cells of the grid, each with its label.
Labels == { << y, label(y, program.group_order) >> : y \in Grid }

\* The moves << y, z >>: the label of cell z is the value stored at cell y.
Moves(labels) ==
    { << q[1], q[2][1] >> : q \in { r \in Grid \X labels : r[2][2] = Stored(r[1]) } }

RECURSIVE Walk(_, _, _)
\* The cell reached from cell after k moves.
Walk(moves, cell, k) ==
    IF k = 0 THEN cell
    ELSE LET prev == Walk(moves, cell, k - 1)
         IN  (CHOOSE m \in moves : m[1] = prev)[2]

\* C6: in the output of make_s_polynomials every group of cells sharing an
\* occupant is one closed cycle: from any cell of a group of size k, moving
\* to the cell whose label is stored at the current cell visits all k cells
\* of the group and is back at the start after exactly k steps.
C6_PermutationCycles ==
    (Constructed /\ perm.called) =>
        \A moves \in { Moves(Labels) } :
            /\ \A y \in Grid : Cardinality({ m \in moves : m[1] = y }) = 1
            /\ \A x \in Grid :
                  \A group \in { GroupOf(x) } :
                      /\ { Walk(moves, x, j) : j \in 1..Cardinality(group) } = group
                      /\ Walk(moves, x, Cardinality(group)) = x
                      /\ \A j \in 1..(Cardinality(group) - 1) : Walk(moves, x, j) # x

\* A grid with a variable on three cells or more, a variable on one cell
\* only and unused cells within and beyond the constraints.
C6_Witness ==
    /\ Constructed /\ perm.called
    /\ \E x \in Grid : Occupant(x) # None /\ Cardinality(GroupOf(x)) >= 3
    /\ \E x \in Grid : Occupant(x) # None /\ Cardinality(GroupOf(x)) = 1
    /\ \E x \in Grid : Occupant(x) = None /\ x[1] < Len(program.constraints)
    /\ \E x \in Grid : Occupant(x) = None /\ x[1] >= Len(program.constraints)

\* The selectors in the order of the tuple make_gate_polynomials returns.
SelectorNames == << "L", "R", "M", "O", "C" >>

\* C7: make_gate_polynomials returns five Lagrange-basis polynomials of
\* length group_order; row i < len(constraints) holds the gate values of
\* constraint i and every later row holds zero in all five.
C7_SelectorPolynomials ==
    (Constructed /\ polys.called) =>
        /\ Len(polys.val) = 5
        /\ \A s \in 1..5 :
              /\ polys.val[s].basis = "LAGRANGE"
              /\ Len(polys.val[s].values) = program.group_order
              /\ \A i \in 1..program.group_order :
                    polys.val[s].values[i] =
                        IF i <= Len(program.constraints)
                        THEN MakeGate(program.constraints[i])[SelectorNames[s]]
                        ELSE 0

\* Selector polynomials with a row of non-zero gate values and a padding row.
C7_Witness ==
    /\ Constructed /\ polys.called
    /\ Len(program.constraints) = MaxEquations
    /\ Len(program.constraints) < program.group_order
    /\ \E s \in 1..5 : polys.val[s].values[MaxEquations] # 0
    /\ polys.val[5].values[1] # 0

\* group_order is at least 1 and divides p - 1.
ValidGroupOrder == group_order >= 1 /\ (field_modulus - 1) % group_order = 0

\* C8: for every group order n >= 1 that divides p - 1, n = 1 included,
\* roots_of_unity(n) returns exactly n elements, element i being w^i for
\* w = root_of_unity(n); element 0 is 1 and the last element times w is 1.
C8_RootsOfUnity ==
    (roots.called /\ ValidGroupOrder) =>
        LET w == Pow(Generator, (field_modulus - 1) \div group_order)
        IN  /\ roots.err = ""
            /\ Len(roots.val) = group_order
            /\ \A i \in 1..Len(roots.val) : roots.val[i] = Pow(w, i - 1)
            /\ roots.val[1] = 1
            /\ (roots.val[Len(roots.val)] * w) % field_modulus = 1

(***************************************************************************)
(* Claims on the propagation of errors                                     *)
(***************************************************************************)

\* The position of the first equation of the list that fails to compile.
FirstFailing ==
    CHOOSE i \in 1..Len(equations) :
        /\ eq_to_assembly(equations[i]).err # ""
        /\ \A j \in 1..(i - 1) : eq_to_assembly(equations[j]).err = ""

\* C11: if an equation of the list given to Program fails to compile,
\* whatever its position, the construction fails with that equation's error
\* and leaves no Program and no constraint list; when the list is also
\* longer than group_order, the capacity error is raised, no equation being
\* compiled.
C11_ErrorAbortsConstruction ==
    (program.called /\ ~EachCompiles) =>
        /\ ~Constructed
        /\ program.constraints = << >>
        /\ ~polys.called /\ ~perm.called /\ ~cpi.called
        /\ program.err =
              IF Len(equations) > group_order THEN "GroupOrderTooSmall"
              ELSE eq_to_assembly(equations[FirstFailing]).err

\* A list within the capacity whose last equation fails after one that
\* compiled, and the construction failing with the degree error.
C11_Witness ==
    /\ program.called /\ Len(equations) <= group_order
    /\ Len(equations) >= 2
    /\ ~EachCompiles /\ FirstFailing = Len(equations)
    /\ program.err = "DegreeTooHigh"

\* The errors of the documented taxonomy a malformed equation may raise: an
\* unrecognized token, a missing operator and an unsupported keyword.
SyntaxErrors == { "UnknownToken", "NoOperatorsFound", "UnsupportedOperation" }

\* An operand is missing in the expression: two operators in a row, an
\* operator at either end, or an empty token.
MissingOperand(exprs) ==
    \/ \E i \in 1..(Len(exprs) - 1) : exprs[i] \in Operators /\ exprs[i + 1] \in Operators
    \/ Len(exprs) > 0 /\ (exprs[1] \in Operators \/ exprs[Len(exprs)] \in Operators)
    \/ \E i \in 1..Len(exprs) : exprs[i] = EMPTY

\* C12: eq_to_assembly fails with a syntax error of the documented
\* taxonomy, never with an index fault, for every equation with a missing
\* operand (two operators in a row, a trailing or leading operator, an
\* empty token) and for every equation of fewer than two tokens.
C12_MissingOperandIsSyntaxError ==
    ( /\ asm.called
      /\ \/ Len(EqTokens) < 2
         \/ IsEquationForm /\ (EqTokens[1] = EMPTY \/ MissingOperand(EqExprs)) )
        => asm.err \in SyntaxErrors

(***************************************************************************)
(* Claims on wires and gates                                               *)
(***************************************************************************)

\* -x in the field.
Neg(x) == (field_modulus - (x % field_modulus)) % field_modulus

\* The gate extracted, as the tuple (L, R, M, O, C).
GateTuple == << gate.L, gate.R, gate.M, gate.O, gate.C >>

\* eq is out <== x * y or out === x * y, with out a name and x, y two
\* distinct names.
IsProductOfTwo ==
    /\ IsEquationForm /\ IsName(EqTokens[1])
    /\ Len(EqExprs) = 3 /\ EqExprs[2] = STAR
    /\ IsName(EqExprs[1]) /\ IsName(EqExprs[3])
    /\ EqExprs[1] # EqExprs[3]

FirstUse(exprs, v) ==
    CHOOSE i \in 1..Len(exprs) :
        /\ Unsigned(exprs[i]) = v
        /\ \A j \in 1..(i - 1) : Unsigned(exprs[j]) # v

\* eq is v === k or v <== k, with v a name and k an integer literal.
IsConstantOnly ==
    /\ IsEquationForm /\ IsName(EqTokens[1])
    /\ Len(EqExprs) = 1 /\ IsNumeric(EqExprs[1])

\* C14: the wires L and R of a compiled equation are the distinct variables
\* of its right-hand side in order of first appearance, None where there
\* is none, a single variable on both; the wire O is the output variable.
\* For v === k the wires are (None, None, v), the coefficients {"": k} and
\* the gate L = 0, R = 0, M = 0, O = 1, C = -k.
C14_WireAssignment ==
    /\ (asm.called /\ asm.err = "" /\ IsEquationForm) =>
          \A vs \in { ReferencedVars(EqExprs) } :
              /\ Len(asm.wires) = 3
              /\ asm.wires[3] = DeclaredName
              /\ Cardinality(vs) = 0 => asm.wires[1] = None /\ asm.wires[2] = None
              /\ Cardinality(vs) = 1 => asm.wires[1] \in vs /\ asm.wires[2] = asm.wires[1]
              /\ Cardinality(vs) = 2 =>
                    /\ { asm.wires[1], asm.wires[2] } = vs
                    /\ FirstUse(EqExprs, asm.wires[1]) < FirstUse(EqExprs, asm.wires[2])
              /\ Cardinality(vs) <= 2
    /\ (asm.called /\ IsConstantOnly) =>
          /\ asm.err = ""
          /\ asm.wires = << None, None, EqTokens[1] >>
          /\ asm.coeffs = << << EMPTY, ToInt(EqExprs[1]) >> >>
          /\ gate.called => GateTuple = << 0, 0, 0, 1, Neg(ToInt(EqExprs[1])) >>

\* A compiled equation of two variables, the first to appear being the
\* later in the order of names, and its gate extracted.
C14_Witness ==
    /\ gate.called /\ IsEquationForm
    /\ Cardinality(ReferencedVars(EqExprs)) = 2
    /\ StrLess(asm.wires[2], asm.wires[1])

\* C15: every equation <var> public compiles to the wires
\* (var, None, None) and the coefficients {var: -1, "$output_coeff": 0,
\* "$public": true}; its gate is L = 1, R = 0, M = 0, O = 0, C = 0.
C15_PublicDeclaration ==
    (asm.called /\ IsPublicForm /\ IsName(EqTokens[1])) =>
        /\ asm.err = ""
        /\ asm.wires = << EqTokens[1], None, None >>
        /\ asm.coeffs = << << EqTokens[1], 0 - 1 >>, << OUTPUT_COEFF, 0 >>,
                           << PUBLIC_FLAG, True >> >>
        /\ gate.called => GateTuple = << 1, 0, 0, 0, 0 >>

\* The gate of a declaration of exactly two tokens.
C15_Witness ==
    /\ gate.called /\ IsPublicForm /\ IsName(EqTokens[1])
    /\ Len(EqTokens) = 2

\* coeffs.get(key, default) on the compiled equation.
Coef(key, default) ==
    LET hits == { i \in 1..Len(asm.coeffs) : asm.coeffs[i][1] = key }
    IN  IF hits = { } THEN default ELSE asm.coeffs[CHOOSE i \in hits : TRUE][2]

EvCoef(key) ==
    LET hits == { i \in 1..Len(ev.val) : ev.val[i][1] = key }
    IN  IF hits = { } THEN 0 ELSE ev.val[CHOOSE i \in hits : TRUE][2]

\* The positions of the operands of a chain.
TermPositions(exprs) == { i \in 1..Len(exprs) : i % 2 = 1 }

\* A name or an integer literal, unsigned.
IsUnit(tok) == IsName(tok) \/ IsNumeric(tok)

\* exprs is a chain of units joined by operators of ops.
IsChainOf(exprs, ops) ==
    /\ Len(exprs) % 2 = 1
    /\ \A i \in 1..Len(exprs) :
          IF i % 2 = 1 THEN IsUnit(exprs[i]) ELSE exprs[i] \in ops

\* A chain of units of pairwise distinct monomial keys joined by "+" and
\* "-".
IsAdditiveChain(exprs) ==
    /\ IsChainOf(exprs, {PLUS, MINUS})
    /\ \A i, j \in TermPositions(exprs) :
          i # j => OperandKey(exprs[i]) # OperandKey(exprs[j])

\* The sign of the operator before the term at position i: "+" for the
\* first term.
SignBefore(exprs, i) == IF i > 1 /\ exprs[i - 1] = MINUS THEN 0 - 1 ELSE 1

\* C17: for every chain of single-token terms of pairwise distinct keys
\* joined by "+" and "-" in any order, evaluate returns for each term its
\* coefficient with the sign of the operator before it, "+" for the first,
\* and no other key: a - b + c gives {a: 1, b: -1, c: 1} and a - b - c
\* gives {a: 1, b: -1, c: -1}.
C17_AdditiveChainSigns ==
    (ev.called /\ ~ev.flag /\ IsAdditiveChain(ev.exprs)) =>
        /\ ev.err = ""
        /\ KeysOf(ev.val) = { OperandKey(ev.exprs[i]) : i \in TermPositions(ev.exprs) }
        /\ Len(ev.val) = Cardinality(TermPositions(ev.exprs))
        /\ \A i \in TermPositions(ev.exprs) :
              EvCoef(OperandKey(ev.exprs[i])) =
                  SignBefore(ev.exprs, i) * OperandCoeff(ev.exprs[i])

\* A chain of three terms whose first operator is "-", the second term
\* negated.
C17_Witness ==
    /\ ev.called /\ ~ev.flag /\ IsAdditiveChain(ev.exprs)
    /\ Len(ev.exprs) = 5
    /\ ev.exprs[2] = MINUS
    /\ EvCoef(OperandKey(ev.exprs[3])) < 0

PolynomialFields == { "QM", "QL", "QR", "QO", "QC", "S1", "S2", "S3" }

\* C18: common_preprocessed_input returns group_order unchanged, QL, QR,
\* QM, QO, QC equal to the L, R, M, O, C polynomials of
\* make_gate_polynomials and S1, S2, S3 equal to the LEFT, RIGHT, OUTPUT
\* polynomials of make_s_polynomials, all in Lagrange basis and of length
\* group_order.
C18_PreprocessedInputFields ==
    (Constructed /\ cpi.called) =>
        /\ cpi.err = ""
        /\ cpi.val.group_order = group_order
        /\ cpi.val.QL = make_gate_polynomials(Self)[1]
        /\ cpi.val.QR = make_gate_polynomials(Self)[2]
        /\ cpi.val.QM = make_gate_polynomials(Self)[3]
        /\ cpi.val.QO = make_gate_polynomials(Self)[4]
        /\ cpi.val.QC = make_gate_polynomials(Self)[5]
        /\ cpi.val.S1 = make_s_polynomials(Self)[LEFT]
        /\ cpi.val.S2 = make_s_polynomials(Self)[RIGHT]
        /\ cpi.val.S3 = make_s_polynomials(Self)[OUTPUT]
        /\ \A i \in 1..Len(program.constraints) :
              LET g == MakeGate(program.constraints[i])
              IN  << cpi.val.QL.values[i], cpi.val.QR.values[i], cpi.val.QM.values[i],
                     cpi.val.QO.values[i], cpi.val.QC.values[i] >>
                  = << g.L, g.R, g.M, g.O, g.C >>
        /\ polys.called =>
              << cpi.val.QL, cpi.val.QR, cpi.val.QM, cpi.val.QO, cpi.val.QC >> = polys.val
        /\ perm.called =>
              /\ cpi.val.S1 = perm.val[LEFT]
              /\ cpi.val.S2 = perm.val[RIGHT]
              /\ cpi.val.S3 = perm.val[OUTPUT]
        /\ \A f \in PolynomialFields :
              /\ cpi.val[f].basis = "LAGRANGE"
              /\ Len(cpi.val[f].values) = group_order

\* A preprocessed input computed after both builders were called, whose
\* selector polynomials L, R, M and O differ from one another and whose
\* three permutation polynomials differ too.
C18_Witness ==
    /\ Constructed /\ cpi.called /\ polys.called /\ perm.called
    /\ Len(program.constraints) > 0
    /\ Cardinality({ cpi.val.QL, cpi.val.QR, cpi.val.QM, cpi.val.QO }) = 4
    /\ Cardinality({ cpi.val.S1, cpi.val.S2, cpi.val.S3 }) = 3

====
